---- MODULE Spec2Model ----
(***************************************************************************)
(* State-machine model of LM::LLaMAInference (src/justlm_llama.hpp) and    *)
(* the Inference base class (src/include/justlm.hpp): the token buffer,    *)
(* context-window scrolling, batched evaluation, generation loop, grammar  *)
(* attachment, savestates and the binary serialization.                    *)
(*                                                                         *)
(* The llama backend is external.  It is modelled by what the session can  *)
(* observe of it: the sequence of tokens it has evaluated (kv), a          *)
(* tokenizer that maps every text unit to one token, and decode calls that *)
(* may fail.  Text is a sequence of units: 1 and 2 are two-byte words, 3   *)
(* is the one-byte newline (and 0 the NUL byte std::string::resize pads   *)
(* with).                                                                  *)
(***************************************************************************)
EXTENDS Integers, Sequences, FiniteSets, TLC

\* ------------------------------------------------------------------ bounds
NCtx == 2          \* context capacity reported by the backend
MaxText == 5       \* longest text given to one append call (in words)
MaxPrompt == 5     \* append stops extending the prompt beyond this length
MaxRunPrompt == 3  \* the same, in the sessions that also generate, save or load
MaxIters == 2      \* after this many loop iterations of run the backend samples EOS
MaxEosIgnores == 1 \* largest configured n_eos_ignores
MaxBatch == 2      \* largest configured n_batch
MaxFail == 2       \* a backend failure hits one of the first MaxFail decode calls of a handler
MaxCancel == 1     \* a progress callback answers false at one of its first MaxCancel calls

\* --------------------------------------------------------- backend tokens
TokZero == 0       \* value-initialised int of std::vector<int>::resize / push_back(0)
TokBos == 1        \* beginning-of-sequence token added when add_bos is set
TokEos == 2        \* llama_token_eos
TokNl == 6         \* the token llama_tokenize gives for "\n"
Hole == -1         \* a kv position the backend never evaluated

Words == {1, 2}
NlUnit == 3
Units == Words \cup {NlUnit}

\* llama_tokenize on one text unit / llama_token_to_piece on one token
TokenOf(u) == u + 3
PieceOf(t) == IF t \in {TokenOf(u) : u \in Units} THEN <<t - 3>> ELSE <<>>

\* std::string::size() of a text: words are two bytes, newline is one
RECURSIVE Bytes(_)
Bytes(s) == IF s = <<>> THEN 0 ELSE (IF Head(s) \in Words THEN 2 ELSE 1) + Bytes(Tail(s))

Take(s, n) == IF n <= 0 THEN <<>> ELSE SubSeq(s, 1, IF n < Len(s) THEN n ELSE Len(s))

\* std::vector<int>::resize: shrink, or grow with value-initialised ints
Zeros(n) == [i \in 1..n |-> TokZero]
Resize(s, n) == IF n <= Len(s) THEN Take(s, n) ELSE s \o Zeros(n - Len(s))

\* ---------------------------------------------------------- configuration
\* Inference::Params as far as the session logic reads it.  scroll_keep is
\* a float in the source; here it is counted in tenths (4 stands for 0.4f).
ScrollKeeps == {0, 5}
Configs ==
    [n_ctx : {NCtx}, top_bar : 0..NCtx, scroll_keep : ScrollKeeps,
     n_batch : 1..MaxBatch, n_eos_ignores : 0..MaxEosIgnores, noexc : BOOLEAN]

VARIABLES
    params,     \* Inference::params and the LM_NOEXCEPT build flag
    tokens,     \* State::tokens
    prompt,     \* State::prompt
    kv,         \* what the llama context has evaluated, by position
    pc,         \* "idle", or "run" while inside LLaMAInference::run
    rn,         \* the locals of run, and what its last loop iteration did
    gr,         \* State::grammar, grammar_override_temp and parsed_grammar
    sv,         \* the Savestate object the caller holds
    stream,     \* the bytes the caller's stream holds after serialize
    snap,       \* the session as it was when serialize wrote stream
    last,       \* the last call that returned: its name, arguments and outcome
    scroll      \* the scroll performed by the last call or loop iteration, if any

session == <<tokens, prompt, kv>>
held == <<gr, sv, stream, snap>>
vars == <<params, tokens, prompt, kv, pc, rn, gr, sv, stream, snap, last, scroll>>

\* ------------------------------------------------------------- the backend
\* llama_decode of the tokens ts at position pos: the context then holds ts
\* at pos.., on top of what it held below pos.
Decode(k, pos, ts) ==
    (IF pos <= Len(k) THEN Take(k, pos) ELSE k \o [i \in 1..(pos - Len(k)) |-> Hole]) \o ts

\* llama_tokenize(text, buffer of cap ints, add_bos): the number of tokens
\* written, or minus the number needed when the buffer is too small.
TokensOfText(text, add_bos) ==
    (IF add_bos THEN <<TokBos>> ELSE <<>>) \o [i \in 1..Len(text) |-> TokenOf(text[i])]
Tokenize(text, cap, add_bos) ==
    LET ts == TokensOfText(text, add_bos)
    IN  IF Len(ts) <= cap THEN [count |-> Len(ts), toks |-> ts]
        ELSE [count |-> 0 - Len(ts), toks |-> <<>>]

\* -------------------------------------------------------- evaluate_tokens
\* env = [F |-> the decode calls (counted through one handler) that fail,
\*        c |-> the progress-callback call that answers false (0: none)]
\* d and t count the decode and callback calls made so far in the handler.
\* log lists what the handler has asked of the backend and of the callbacks:
\* <<"decode", pos, n>> (n tokens evaluated at position pos),
\* <<"decode_failed", pos, n>>, and <<cb, progress, answer>> for a call of the
\* callback cb ("on_tick" or "on_scroll") with the progress in whole percent
\* and its answer (1 for true, 0 for false).
\* Both callbacks are given; a null callback is one that is not called and
\* counts as having answered true.
RECURSIVE EvalSingles(_, _, _, _, _, _)
EvalSingles(toks, k, it, d, env, log) ==
    IF it >= Len(toks) THEN [kv |-> k, ok |-> TRUE, d |-> d, log |-> log]
    ELSE IF (d + 1) \in env.F
    THEN [kv |-> k, ok |-> FALSE, d |-> d + 1,
          log |-> Append(log, <<"decode_failed", it, 1>>)]
    ELSE EvalSingles(toks, Decode(k, it, <<toks[it + 1]>>), it + 1, d + 1, env,
                     Append(log, <<"decode", it, 1>>))

\* The bool a callback returns, as the log keeps it
Answer(t, env) == IF t = env.c THEN 0 ELSE 1

\* The share of the tokens that is still to be evaluated (a faulty variant,
\* which C20 tells from Progress)
ProgressRemaining(it, starting_offset, size) ==
    ((size - it) * 100) \div (size - starting_offset)

\* float(it-starting_offset) / (tokens.size()-starting_offset) * 100.f,
\* in whole percent
Progress(it, starting_offset, size) ==
    ((it - starting_offset) * 100) \div (size - starting_offset)

RECURSIVE EvalBatches(_, _, _, _, _, _, _, _, _, _)
EvalBatches(toks, k, it, nb, d, t, env, starting_offset, cb, log) ==
    IF it + nb >= Len(toks)
    THEN LET r == EvalSingles(toks, k, it, d, env, log)
         IN  [kv |-> r.kv, ok |-> r.ok, cancelled |-> FALSE, d |-> r.d,
              t |-> IF r.ok THEN t + 1 ELSE t,
              log |-> IF r.ok THEN Append(r.log, <<cb, 100, Answer(t + 1, env)>>)
                      ELSE r.log]
    ELSE IF (d + 1) \in env.F
    THEN [kv |-> k, ok |-> FALSE, cancelled |-> FALSE, d |-> d + 1, t |-> t,
          log |-> Append(log, <<"decode_failed", it, nb>>)]
    ELSE LET k1 == Decode(k, it, SubSeq(toks, it + 1, it + nb))
             log1 == log \o << <<"decode", it, nb>>,
                               <<cb, Progress(it, starting_offset, Len(toks)),
                                 Answer(t + 1, env)>> >>
         IN  IF t + 1 = env.c
             THEN [kv |-> k1, ok |-> TRUE, cancelled |-> TRUE, d |-> d + 1, t |-> t + 1,
                   log |-> log1]
             ELSE EvalBatches(toks, k1, it + nb, nb, d + 1, t + 1, env,
                              starting_offset, cb, log1)

\* evaluate_tokens that starts at the front of the buffer wherever it is told
\* to start (a faulty variant, which C18 tells from evaluate_tokens)
evaluate_tokens_from_front(toks, k, starting_offset, d, t, env, cb, log) ==
    EvalBatches(toks, k, 0, params.n_batch, d, t, env, 0, cb, log)

evaluate_tokens(toks, k, starting_offset, d, t, env, cb, log) ==
    EvalBatches(toks, k, starting_offset, params.n_batch, d, t, env,
                starting_offset, cb, log)

\* The positions the llama_decode calls of a log were given, in call order:
\* llama_batch_get_one(tokens + it, n, it, 0) covers it .. it + n - 1.
RECURSIVE Decoded(_)
Decoded(log) ==
    IF log = <<>> THEN <<>>
    ELSE (IF Head(log)[1] = "decode"
          THEN [j \in 1..Head(log)[3] |-> Head(log)[2] + j - 1]
          ELSE <<>>) \o Decoded(Tail(log))

\* ----------------------------------------------------------- window_scroll
KeepTenths == 4
keep_count(toks) == ((Len(toks) - params.top_bar) * KeepTenths) \div 10

\* window_scroll without the memcpy of tokens_in_view: the tokens that happen to
\* follow the top bar stay (a faulty variant, which C3 tells from ScrollTokens)
ScrollTokensNoCopy(toks) ==
    IF params.scroll_keep > 0
    THEN Resize(toks, params.top_bar + keep_count(toks))
    ELSE Resize(toks, params.top_bar)

ScrollTokens(toks) ==
    IF params.scroll_keep > 0
    THEN LET kc == keep_count(toks)
             tokens_in_view == SubSeq(toks, Len(toks) - kc + 1, Len(toks))
             cut == Resize(toks, params.top_bar + kc)
         IN  [i \in 1..Len(cut) |->
                 IF i > params.top_bar THEN tokens_in_view[i - params.top_bar] ELSE cut[i]]
    ELSE Resize(toks, params.top_bar)

NoScroll == [done |-> FALSE, pre |-> <<>>]
RnIdle == [end |-> <<>>, fres |-> <<>>, abort |-> FALSE, eos_count |-> 0,
           last_size |-> 0, iters |-> 0, step |-> "idle", sampled |-> 0, eos_seen |-> 0,
           events |-> <<>>]

\* The result: ret is the bool window_scroll returns, threw says that it
\* left by an exception (throwing build only).
window_scroll(toks, k, d, t, env, log) ==
    IF Len(toks) <= params.n_ctx
    THEN [ret |-> FALSE, threw |-> FALSE, tokens |-> toks, kv |-> k, d |-> d, t |-> t,
          scroll |-> NoScroll, log |-> log, cancelled |-> FALSE]
    ELSE CHOOSE result \in
           {IF e1.ok
            THEN [ret |-> TRUE, threw |-> FALSE, tokens |-> cut, kv |-> e1.kv,
                  d |-> e1.d, t |-> e1.t, scroll |-> [done |-> TRUE, pre |-> toks],
                  log |-> e1.log, cancelled |-> e1.cancelled]
            ELSE IF ~params.noexc
            THEN [ret |-> FALSE, threw |-> TRUE, tokens |-> cut, kv |-> e1.kv,
                  d |-> e1.d, t |-> e1.t, scroll |-> [done |-> TRUE, pre |-> toks],
                  log |-> e1.log, cancelled |-> FALSE]
            \* LM_ERROR_FORWARD of the no-throw build evaluates its argument again
            ELSE CHOOSE again \in
                   {[ret |-> e2.ok, threw |-> FALSE, tokens |-> cut, kv |-> e2.kv,
                     d |-> e2.d, t |-> e2.t, scroll |-> [done |-> TRUE, pre |-> toks],
                     log |-> e2.log, cancelled |-> e2.cancelled]
                    : e2 \in {evaluate_tokens(cut, e1.kv, 0, e1.d, e1.t, env,
                                              "on_scroll", e1.log)}} : TRUE
            : cut \in {ScrollTokens(toks)},
              e1 \in {evaluate_tokens(ScrollTokens(toks), k, 0, d, t, env,
                                      "on_scroll", log)}} : TRUE

\* ------------------------------------------------------------------ inputs
SeqsUpTo(S, n) == UNION {[1..m -> S] : m \in 0..n}
LongText == [i \in 1..MaxText |-> 1 + (i % 2)]
Texts == {SubSeq(LongText, 1, n) : n \in 0..MaxText} \cup {<<2>>}
ShortTexts == {<<>>, <<1>>, <<1, 2>>}
FailSets == {{}} \cup {{k} : k \in 1..MaxFail} \cup {k..MaxFail : k \in 1..MaxFail}
Envs == [F : FailSets, c : 0..MaxCancel]
NoFault == [F : {{}}, c : {0}]
\* the backend faults alone: no progress callback ever answers false
DecodeFaults == {e \in Envs : e.c = 0}

\* ------------------------------------------------------------------ append
\* state->prompt = str (a faulty variant, which C15 tells from AppendToPrompt)
AssignToPrompt(str) == str

\* state->prompt.append(str)
AppendToPrompt(str) == prompt \o str

\* The outcome of append(text, on_tick) from the current state.
\* res: "ok" (LM_BOOL_SUCCESS), "error" (LM_THROW) or "fatal" (the
\* std::length_error of resizing to a wrapped-around size).
AppendCall(text, env) ==
    LET was_empty == (prompt = <<>>)
        p1 == AppendToPrompt(text)
        old_token_count == Len(tokens)
        cap == Bytes(p1)
        tk == Tokenize(text, cap, was_empty)
        new_size == old_token_count + tk.count
        toks1 == IF tk.count >= 0 THEN tokens \o tk.toks ELSE Take(tokens, new_size)
    IN  IF new_size < 0
        THEN [res |-> "fatal", err |-> "length_error", prompt |-> p1,
              tokens |-> tokens \o Zeros(cap), kv |-> kv, scroll |-> NoScroll,
              log |-> <<>>, cancelled |-> FALSE]
        \* ws: what window_scroll() did; ev: what evaluate_tokens did after it
        ELSE CHOOSE result \in
           {IF ws.threw
            THEN [res |-> "error", err |-> "Failed to evaluate tokens", prompt |-> p1,
                  tokens |-> ws.tokens, kv |-> ws.kv, scroll |-> ws.scroll,
                  log |-> ws.log, cancelled |-> FALSE]
            ELSE IF ws.ret
            THEN [res |-> "ok", err |-> "", prompt |-> p1,
                  tokens |-> ws.tokens, kv |-> ws.kv, scroll |-> ws.scroll,
                  log |-> ws.log, cancelled |-> ws.cancelled]
            ELSE CHOOSE evaluated \in
                   {[res |-> IF ev.ok THEN "ok" ELSE "error",
                     err |-> IF ev.ok THEN "" ELSE "Failed to evaluate tokens",
                     prompt |-> p1, tokens |-> ws.tokens, kv |-> ev.kv,
                     scroll |-> ws.scroll, log |-> ev.log, cancelled |-> ev.cancelled]
                    : ev \in {evaluate_tokens(ws.tokens, ws.kv, old_token_count,
                                              ws.d, ws.t, env, "on_tick", ws.log)}} : TRUE
            : ws \in {window_scroll(toks1, kv, 0, 0, env, <<>>)}} : TRUE

append(T, E, P) ==
    /\ pc = "idle"
    /\ \E text \in T, env \in E :
        /\ Len(prompt) + Len(text) <= P
        /\ \E r \in {AppendCall(text, env)} :
               /\ tokens' = r.tokens
               /\ prompt' = r.prompt
               /\ kv' = r.kv
               /\ scroll' = r.scroll
               \* old: the size of the token buffer the call found
               /\ last' = [op |-> "append", res |-> r.res, err |-> r.err,
                           arg |-> text, ret |-> <<>>, old |-> Len(tokens),
                           log |-> r.log, cancelled |-> r.cancelled]
               /\ pc' = IF r.res = "fatal" /\ params.noexc THEN "dead" ELSE "idle"
    /\ rn' = RnIdle
    /\ UNCHANGED <<params, held>>

\* --------------------------------------------------------------------- run
\* fres.find(end) != npos
Contains(s, e) == \E i \in 0..(Len(s) - Len(e)) : SubSeq(s, i + 1, i + Len(e)) = e

Ends == {<<>>, <<2>>}
SampleIds == {TokEos} \cup {TokenOf(w) : w \in Words}

\* run(end, on_tick, pre_tick) up to its loop
RunStart ==
    /\ pc = "idle"
    /\ prompt # <<>>
    /\ Len(prompt) < MaxRunPrompt
    /\ \E end \in Ends :
        /\ rn' = [end |-> end, fres |-> <<>>, abort |-> FALSE, eos_count |-> 0,
                  last_size |-> 0, iters |-> 0, step |-> "start", sampled |-> 0,
                  eos_seen |-> 0, events |-> <<>>]
        /\ last' = [op |-> "run", res |-> "pending", err |-> "", arg |-> end, ret |-> <<>>]
    /\ pc' = "run"
    /\ scroll' = NoScroll
    /\ UNCHANGED <<params, tokens, prompt, kv, held>>

LoopCondition == ~rn.abort /\ (rn.end = <<>> \/ ~Contains(rn.fres, rn.end))

\* ++eos_count == params.n_eos_ignores (a faulty variant, which C6 tells
\* from EosHonoured)
EosHonouredPreIncrement(eos_count) == eos_count + 1 = params.n_eos_ignores

\* eos_count++ == params.n_eos_ignores, on the value before the increment
EosHonoured(eos_count) == eos_count = params.n_eos_ignores

\* One iteration of the loop of run: id is the sampled token, pre and on are
\* the answers of pre_tick and on_tick (a null callback counts as true).
\* step says how the iteration ended: "eos" (end of sequence honoured),
\* "vetoed" (pre_tick answered false), "evaluated", or "threw".
\* events lists what the iteration called, in order: "pre_tick", "decode" (of
\* the new token; "decode_failed" when the backend refused it) and "on_tick".
\* Both callbacks are given; a null callback is one that is not called and
\* counts as having answered true.
\* With an empty buffer after the scroll, tokens.data()+tokens.size()-1 points
\* before the buffer: undefined behaviour, whose outcomes here are a crash, a
\* failed decode, or a decode of an unknown token (ub chooses).
RunIterCall(id, pre, on, env, ub) ==
    LET is_eos == (id = TokEos)
        honoured == is_eos /\ EosHonoured(rn.eos_count)
        id1 == IF is_eos THEN Tokenize(<<NlUnit>>, 1, FALSE).toks[1] ELSE id
        toks1 == tokens \o <<id1>>
        str == PieceOf(id1)
        base == [rn EXCEPT !.last_size = Len(rn.fres), !.iters = @ + 1,
                           !.sampled = id,
                           !.eos_seen = IF is_eos THEN @ + 1 ELSE @,
                           !.eos_count = IF is_eos THEN @ + 1 ELSE @]
    IN  IF honoured
        THEN [tokens |-> tokens, prompt |-> prompt, kv |-> kv, scroll |-> NoScroll,
              threw |-> FALSE, oob |-> FALSE, rn |-> [base EXCEPT !.abort = TRUE, !.step = "eos", !.events = <<>>]]
        \* ws: what window_scroll() did
        ELSE CHOOSE result \in {
        LET failed == (ws.d + 1) \in env.F
            oob == (ws.tokens = <<>>)
            k1 == IF oob THEN <<Hole>>
                  ELSE Decode(ws.kv, Len(ws.tokens) - 1, <<ws.tokens[Len(ws.tokens)]>>)
        IN
        IF ws.threw
        THEN [tokens |-> ws.tokens, prompt |-> prompt, kv |-> ws.kv, scroll |-> ws.scroll,
              threw |-> TRUE, oob |-> FALSE,
              rn |-> [base EXCEPT !.step = "threw", !.events = <<>>]]
        ELSE IF ~pre
        THEN [tokens |-> ws.tokens, prompt |-> AppendToPrompt(str), kv |-> ws.kv,
              scroll |-> ws.scroll, threw |-> FALSE, oob |-> FALSE,
              rn |-> [base EXCEPT !.fres = @ \o str, !.abort = TRUE,
                                  !.step = "vetoed",
                                  !.events = <<"pre_tick", "on_tick">>]]
        ELSE IF oob /\ ub = "crash"
        THEN [tokens |-> ws.tokens, prompt |-> AppendToPrompt(str), kv |-> ws.kv,
              scroll |-> ws.scroll, threw |-> FALSE, oob |-> TRUE,
              rn |-> [base EXCEPT !.fres = @ \o str, !.step = "crashed",
                                  !.events = <<"pre_tick">>]]
        ELSE IF failed
        THEN [tokens |-> ws.tokens, prompt |-> AppendToPrompt(str), kv |-> ws.kv,
              scroll |-> ws.scroll, threw |-> TRUE, oob |-> oob,
              rn |-> [base EXCEPT !.fres = @ \o str, !.step = "threw",
                                  !.events = <<"pre_tick", "decode_failed">>]]
        ELSE [tokens |-> ws.tokens, prompt |-> AppendToPrompt(str), kv |-> k1,
              scroll |-> ws.scroll, threw |-> FALSE, oob |-> oob,
              rn |-> [base EXCEPT !.fres = @ \o str, !.abort = ~on,
                                  !.step = "evaluated",
                                  !.events = <<"pre_tick", "decode", "on_tick">>]]
        : ws \in {window_scroll(toks1, kv, 0, 0, env, <<>>)}} : TRUE

RunIter(E) ==
    /\ pc = "run"
    /\ LoopCondition
    /\ \E id \in SampleIds, pre \in BOOLEAN, env \in E :
       \* once pre_tick has answered false abort is set, and the answer of the
       \* on_tick that follows changes nothing; the buffer can only be empty
       \* after a scroll when there is no top bar
       \E on \in (IF pre THEN BOOLEAN ELSE {TRUE}),
          ub \in (IF params.top_bar = 0 THEN {"crash", "decode"} ELSE {"decode"}) :
        /\ (rn.iters >= MaxIters \/ Len(prompt) >= MaxRunPrompt) => id = TokEos
        /\ \E r \in {RunIterCall(id, pre, on, env, ub)} :
               /\ (ub = "crash") => r.oob
               /\ tokens' = r.tokens
               /\ prompt' = r.prompt
               /\ kv' = r.kv
               /\ scroll' = r.scroll
               /\ rn' = r.rn
               /\ pc' = IF r.rn.step = "crashed" THEN "dead"
                        ELSE IF r.threw THEN "idle" ELSE "run"
               /\ last' = IF r.threw
                          THEN [op |-> "run", res |-> "error", err |-> "Failed to evaluate",
                                arg |-> rn.end, ret |-> <<>>]
                          ELSE last
    /\ UNCHANGED <<params, held>>

\* The end of run: the final string is cut back to last_size
FinalString ==
    IF ~rn.abort /\ Bytes(rn.fres) > Bytes(rn.end) THEN Take(rn.fres, rn.last_size) ELSE rn.fres

RunEnd ==
    /\ pc = "run"
    /\ ~LoopCondition
    /\ pc' = "idle"
    /\ last' = [op |-> "run", res |-> "ok", err |-> "", arg |-> rn.end, ret |-> FinalString]
    /\ UNCHANGED <<params, tokens, prompt, kv, rn, scroll, held>>

\* -------------------------------------------------------------- savestates
\* llama_copy_state_data / llama_set_state_data: the context's state as a
\* length-prefixed blob
StateData(k) == <<Len(k)>> \o k
SetStateData(buf) == SubSeq(buf, 2, 1 + buf[1])

\* generic_state of this session, of another session, and nullptr
Self == 1
Other == 2
Null == 0

EmptySavestate == [buf |-> <<>>, tokens |-> <<>>, prompt |-> <<>>, ctx |-> Null]
\* a savestate that create_savestate of another session filled
ForeignSavestate ==
    [buf |-> StateData(<<TokBos, TokenOf(2)>>), tokens |-> <<TokBos, TokenOf(2)>>,
     prompt |-> <<2>>, ctx |-> Other]

\* create_savestate leaving sv.tokens as it was (a faulty variant, which C14
\* tells from Capture)
CaptureKeepingTokens ==
    [buf |-> StateData(kv), tokens |-> sv.tokens, prompt |-> prompt, ctx |-> Self]

\* what create_savestate stores: copies of the backend state, tokens and prompt
Capture ==
    [buf |-> StateData(kv), tokens |-> tokens, prompt |-> prompt, ctx |-> Self]

\* snap remembers the session as it was when the savestate was taken
create_savestate ==
    /\ pc = "idle"
    /\ sv' = Capture
    /\ snap' = [tokens |-> tokens, prompt |-> prompt, kv |-> kv, whole |-> TRUE]
    /\ last' = [op |-> "create_savestate", res |-> "ok", err |-> "", arg |-> <<>>, ret |-> <<>>]
    /\ rn' = RnIdle
    /\ scroll' = NoScroll
    /\ UNCHANGED <<params, session, pc, gr, stream>>

\* restore_savestate testing sv.is_valid() instead of the identity (a variant
\* which C8 tells from RestoreCall)
RestoreCallIsValid(s) ==
    IF s.ctx = Null
    THEN [res |-> "error", err |-> "Savestate does not match context",
          tokens |-> tokens, prompt |-> prompt, kv |-> kv]
    ELSE [res |-> "ok", err |-> "",
          tokens |-> s.tokens, prompt |-> s.prompt, kv |-> SetStateData(s.buf)]

RestoreCall(s) ==
    IF s.ctx # Self
    THEN [res |-> "error", err |-> "Savestate does not match context",
          tokens |-> tokens, prompt |-> prompt, kv |-> kv]
    ELSE [res |-> "ok", err |-> "",
          tokens |-> s.tokens, prompt |-> s.prompt, kv |-> SetStateData(s.buf)]

restore_savestate ==
    /\ pc = "idle"
    /\ \E s \in {sv, ForeignSavestate} :
        \E r \in {RestoreCall(s)} :
            /\ tokens' = r.tokens
            /\ prompt' = r.prompt
            /\ kv' = r.kv
            \* before: the token buffer the call found
            /\ last' = [op |-> "restore_savestate", res |-> r.res, err |-> r.err,
                        arg |-> <<s.ctx>>, ret |-> <<>>, before |-> tokens]
    /\ rn' = RnIdle
    /\ scroll' = NoScroll
    /\ UNCHANGED <<params, pc, held>>

\* ----------------------------------------------------------- serialization
\* The stream is a sequence of items: each u32 size, each token and each
\* prompt unit is one item.  The sizes are far below 2^32, so their cast to
\* uint32_t keeps them.

\* serialize writing the prompt before the tokens (a faulty variant, which C7
\* tells from SerializeBytes)
SerializeBytesPromptFirst ==
    LET state_buf == StateData(kv)
    IN  <<params.n_ctx, Len(tokens), Len(prompt), Len(state_buf)>>
        \o prompt \o tokens \o state_buf

SerializeBytes ==
    LET state_buf == StateData(kv)
    IN  <<params.n_ctx, Len(tokens), Len(prompt), Len(state_buf)>>
        \o tokens \o prompt \o state_buf

\* o.write fails after `room` items (room = -1: the stream takes everything)
serialize ==
    /\ pc = "idle"
    /\ \E room \in {-1, 3, 5} :
        LET bytes == SerializeBytes
            short == room >= 0 /\ room < Len(bytes)
        IN  /\ stream' = IF short THEN Take(bytes, room) ELSE bytes
            /\ snap' = [tokens |-> tokens, prompt |-> prompt, kv |-> kv, whole |-> ~short]
            /\ last' = [op |-> "serialize", res |-> IF short THEN "error" ELSE "ok",
                        err |-> IF short THEN "Failed to serialize" ELSE "",
                        arg |-> <<>>, ret |-> <<>>]
    /\ rn' = RnIdle
    /\ scroll' = NoScroll
    /\ UNCHANGED <<params, session, pc, gr, sv>>

\* i.read of n items at offset off into buffer buf: the items the stream still
\* has are stored, and the read fails when they are fewer than n
ReadInto(buf, i, off, n) ==
    LET avail == IF Len(i) - off < n THEN (IF Len(i) > off THEN Len(i) - off ELSE 0) ELSE n
    IN  [ok |-> avail = n,
         buf |-> [j \in 1..Len(buf) |-> IF j <= avail THEN i[off + j] ELSE buf[j]]]

\* std::string::resize pads with the zero character
ResizeString(str, n) == IF n <= Len(str) THEN Take(str, n) ELSE str \o [j \in 1..(n - Len(str)) |-> 0]

\* deserialize comparing the context sizes after the tokens are read (a variant
\* which C10 tells from DeserializeCall)
DeserializeCallLateCheck(i) ==
    LET n_ctx == i[1]
        embd_size == i[2]
        rt == ReadInto(Resize(tokens, embd_size), i, 4, embd_size)
    IN  IF Len(i) < 4
        THEN [res |-> "error", err |-> "Failed to deserialize data sizes",
              tokens |-> tokens, prompt |-> prompt, kv |-> kv]
        ELSE IF ~rt.ok
        THEN [res |-> "error", err |-> "Failed to deserialize tokens",
              tokens |-> rt.buf, prompt |-> prompt, kv |-> kv]
        ELSE [res |-> "error", err |-> "Context length differs",
              tokens |-> rt.buf, prompt |-> prompt, kv |-> kv]

DeserializeCall(i) ==
    LET n_ctx == i[1]
        embd_size == i[2]
        prompt_size == i[3]
        state_size == i[4]
        rt == ReadInto(Resize(tokens, embd_size), i, 4, embd_size)
        rp == ReadInto(ResizeString(prompt, prompt_size), i, 4 + embd_size, prompt_size)
        rs == ReadInto(Zeros(state_size), i, 4 + embd_size + prompt_size, state_size)
    IN  IF Len(i) < 4
        THEN [res |-> "error", err |-> "Failed to deserialize data sizes",
              tokens |-> tokens, prompt |-> prompt, kv |-> kv]
        ELSE IF params.n_ctx # n_ctx
        THEN [res |-> "error", err |-> "Context length differs",
              tokens |-> tokens, prompt |-> prompt, kv |-> kv]
        ELSE IF ~rt.ok
        THEN [res |-> "error", err |-> "Failed to deserialize tokens",
              tokens |-> rt.buf, prompt |-> prompt, kv |-> kv]
        ELSE IF ~rp.ok
        THEN [res |-> "error", err |-> "Failed to deserialize prompt",
              tokens |-> rt.buf, prompt |-> rp.buf, kv |-> kv]
        ELSE IF ~rs.ok
        THEN [res |-> "error", err |-> "Failed to deserialize state",
              tokens |-> rt.buf, prompt |-> rp.buf, kv |-> kv]
        ELSE [res |-> "ok", err |-> "",
              tokens |-> rt.buf, prompt |-> rp.buf, kv |-> SetStateData(rs.buf)]

\* The streams given to deserialize: what serialize wrote, the same bytes from
\* a session of another context size, and what is left of them after a cut.
OtherCtx(i) == IF Len(i) >= 1 THEN [i EXCEPT ![1] = @ + 1] ELSE i
InputStreams == {stream, OtherCtx(stream)} \cup {Take(stream, n) : n \in {2, 5, Len(stream) - 1}}

deserialize ==
    /\ pc = "idle"
    /\ \E i \in InputStreams :
        \E r \in {DeserializeCall(i)} :
            /\ tokens' = r.tokens
            /\ prompt' = r.prompt
            /\ kv' = r.kv
            /\ last' = [op |-> "deserialize", res |-> r.res, err |-> r.err,
                        arg |-> i, ret |-> <<>>]
    /\ rn' = RnIdle
    /\ scroll' = NoScroll
    /\ UNCHANGED <<params, pc, held>>

\* ----------------------------------------------------------------- grammar
\* grammar_parser::parse: the rule set of a source, 0 when nothing parses
Sources == {"", "garbage", "root ::= a", "root ::= b", "item ::= a"}
ParsedRules(src) ==
    CASE src = "root ::= a" -> 1
      [] src = "root ::= b" -> 2
      [] src = "item ::= a" -> 3
      [] OTHER -> 0
HasRoot(rules) == rules \in {1, 2}

NoGrammar == [grammar |-> 0, grammar_override_temp |-> FALSE, parsed_grammar |-> 0]

\* init_ok: whether llama_grammar_init returns a grammar
LoadGrammarCall(src, override_temperature, init_ok) ==
    LET parsed == ParsedRules(src)
        g1 == [gr EXCEPT !.parsed_grammar = parsed]
    IN  IF parsed = 0
        THEN [res |-> "error", err |-> "Failed to parse grammar (or no rules)", gr |-> g1]
        ELSE IF ~HasRoot(parsed)
        THEN [res |-> "fatal", err |-> "out_of_range", gr |-> g1]
        ELSE IF ~init_ok
        THEN [res |-> "error", err |-> "Failed to generate llama grammar",
              gr |-> [g1 EXCEPT !.grammar = 0]]
        ELSE [res |-> "ok", err |-> "",
              gr |-> [g1 EXCEPT !.grammar = parsed,
                                !.grammar_override_temp = override_temperature]]

load_grammar ==
    /\ pc = "idle"
    /\ \E src \in Sources, ot \in BOOLEAN, init_ok \in BOOLEAN :
        \E r \in {LoadGrammarCall(src, ot, init_ok)} :
            /\ gr' = r.gr
            /\ last' = [op |-> "load_grammar", res |-> r.res, err |-> r.err,
                        arg |-> <<>>, ret |-> <<>>]
            /\ pc' = IF r.res = "fatal" /\ params.noexc THEN "dead" ELSE "idle"
    /\ rn' = RnIdle
    /\ scroll' = NoScroll
    /\ UNCHANGED <<params, session, sv, stream, snap>>

unload_grammar ==
    /\ pc = "idle"
    /\ gr' = [gr EXCEPT !.grammar = 0]
    /\ last' = [op |-> "unload_grammar", res |-> "ok", err |-> "", arg |-> <<>>, ret |-> <<>>]
    /\ rn' = RnIdle
    /\ scroll' = NoScroll
    /\ UNCHANGED <<params, session, pc, sv, stream, snap>>

\* ---------------------------------------------------------------- sampling
\* params.prefer_mirostat and params.temp (in hundredths) as the caller has set
\* them before the sampling step
Strategies == {-1, 0, 1, 2, 3}
Temps == {-72, 0, 72}

\* Params::mirostat_target_entropy (its default), and what a mirostat draw of
\* the backend may add to the mu it is handed through &mirostat_mu
TargetEntropy == 5
MuSteps == {-1, 0, 1}

\* llama_sample_top_p_top_k: id is the token the backend's sampler picks.
\* mu is the value of the local mirostat_mu that the backend is handed, if a
\* mirostat sampler is called.
\* LM_THROW of the no-throw build stores the message and returns
\* LM_BOOL_ERROR, which the int return type turns into token 0.
SampleCall(prefer_mirostat, temp, id) ==
    IF ~(gr.grammar # 0 /\ gr.grammar_override_temp) /\ (temp > 1 \/ temp < -1)
    THEN IF prefer_mirostat = 0
         THEN [res |-> "token", err |-> "", ret |-> <<id>>, mu |-> <<>>]
         ELSE IF prefer_mirostat \in {1, 2}
         THEN [res |-> "token", err |-> "", ret |-> <<id>>, mu |-> <<2 * TargetEntropy>>]
         ELSE IF params.noexc
         THEN [res |-> "token", err |-> "Invalid mirostat version", ret |-> <<TokZero>>,
               mu |-> <<>>]
         ELSE [res |-> "throw", err |-> "Invalid mirostat version", ret |-> <<>>,
               mu |-> <<>>]
    ELSE [res |-> "token", err |-> "", ret |-> <<id>>, mu |-> <<>>]

\* one sampling step, as the loop of run makes it. mu_in is what the backend
\* was handed as mu and mu_out what it left in mirostat_mu, a local that ends
\* with the call.
llama_sample_top_p_top_k ==
    /\ pc = "idle"
    /\ \E prefer_mirostat \in Strategies, temp \in Temps, id \in SampleIds,
          step \in MuSteps :
        \E r \in {SampleCall(prefer_mirostat, temp, id)} :
            /\ (r.mu = <<>>) => step = 0
            /\ last' = [op |-> "llama_sample_top_p_top_k", res |-> r.res, err |-> r.err,
                        arg |-> <<prefer_mirostat, temp>>, ret |-> r.ret,
                        mu_in |-> r.mu,
                        mu_out |-> IF r.mu = <<>> THEN <<>> ELSE <<r.mu[1] + step>>]
    /\ rn' = RnIdle
    /\ scroll' = NoScroll
    /\ UNCHANGED <<params, session, pc, held>>

\* ----------------------------------------------------------- specification
InitWith(C) ==
    /\ params \in C
    /\ tokens = <<>>
    /\ prompt = <<>>
    /\ kv = <<>>
    /\ pc = "idle"
    /\ rn = RnIdle
    /\ gr = NoGrammar
    /\ sv = EmptySavestate
    /\ stream = <<>>
    /\ snap = [tokens |-> <<>>, prompt |-> <<>>, kv |-> <<>>, whole |-> FALSE]
    /\ last = [op |-> "init", res |-> "ok", err |-> "", arg |-> <<>>, ret |-> <<>>]
    /\ scroll = NoScroll

\* Sessions that only append: every text, every backend fault
InitAppend == InitWith({c \in Configs : c.n_eos_ignores = 0})
NextAppend ==
    \/ append(Texts, Envs, MaxPrompt)
SpecAppend == InitAppend /\ [][NextAppend]_vars

\* Sessions that only append, in a context wide enough that most texts fit
\* without a scroll and fill several batches
EvalConfigs ==
    [n_ctx : {MaxPrompt}, top_bar : {0, 1}, scroll_keep : ScrollKeeps,
     n_batch : 1..MaxBatch, n_eos_ignores : {0}, noexc : BOOLEAN]
InitEval == InitWith(EvalConfigs)
NextEval ==
    \/ append(Texts, Envs, MaxPrompt)
SpecEval == InitEval /\ [][NextEval]_vars

\* Sessions that append and generate. With n_batch = MaxBatch the texts of
\* these sessions never fill a batch, so evaluate_tokens asks the progress
\* callback only at the end, where its answer is not read: the environment is
\* the backend's faults.
Init == InitWith({c \in Configs : c.n_batch = MaxBatch /\ c.top_bar < NCtx})
Next ==
    \/ append(ShortTexts, DecodeFaults, MaxRunPrompt)
    \/ RunStart
    \/ RunIter(DecodeFaults)
    \/ RunEnd
Spec == Init /\ [][Next]_vars

\* Sessions that are saved and restored in memory
SmallConfigs == {c \in Configs : c.n_batch = MaxBatch /\ c.n_eos_ignores = 0
                                 /\ c.top_bar = 1 /\ c.scroll_keep > 0}
InitSave == InitWith(SmallConfigs)
NextSave ==
    \/ append(ShortTexts, Envs, MaxRunPrompt)
    \/ RunStart
    \/ RunIter(DecodeFaults)
    \/ RunEnd
    \/ create_savestate
    \/ restore_savestate
SpecSave == InitSave /\ [][NextSave]_vars

\* Sessions that are written to and read from a stream
InitStream == InitWith(SmallConfigs)
NextStream ==
    \/ append(ShortTexts, Envs, MaxRunPrompt)
    \/ serialize
    \/ deserialize
SpecStream == InitStream /\ [][NextStream]_vars

\* Sessions that load and unload grammars
InitGrammar == InitWith(SmallConfigs)
NextGrammar ==
    \/ append(ShortTexts, NoFault, MaxRunPrompt)
    \/ load_grammar
    \/ unload_grammar
SpecGrammar == InitGrammar /\ [][NextGrammar]_vars

\* Sessions in which every call of append, run, restore_savestate and
\* deserialize returns success and no callback answers false, while the
\* backend may refuse a decode: a step is taken only if the call it belongs to
\* goes on without an error, a veto or an abort.
CallGoesOn ==
    /\ pc' # "dead"
    /\ last'.res \in {"ok", "pending"}
    /\ rn'.step # "vetoed"
    /\ (rn'.step = "evaluated") => ~rn'.abort
InitSync == InitWith({c \in Configs : c.n_batch = MaxBatch /\ c.top_bar < NCtx
                                       /\ c.n_eos_ignores = 0})
NextSync ==
    \/ append(ShortTexts, DecodeFaults, MaxRunPrompt) /\ CallGoesOn
    \/ RunStart
    \/ RunIter(DecodeFaults) /\ CallGoesOn
    \/ RunEnd
    \/ create_savestate
    \/ restore_savestate /\ CallGoesOn
    \/ serialize
    \/ deserialize /\ CallGoesOn
SpecSync == InitSync /\ [][NextSync]_vars

\* Sampling steps under every grammar setting
InitSample == InitWith(SmallConfigs)
NextSample ==
    \/ llama_sample_top_p_top_k
    \/ load_grammar
    \/ unload_grammar
SpecSample == InitSample /\ [][NextSample]_vars

\* ================================================================== claims
\* The buffer as it was right after the push of the last call or iteration:
\* the buffer before the scroll when there was one
PushedBuffer == IF scroll.done THEN scroll.pre ELSE tokens
AppendReturned == pc = "idle" /\ last.op = "append" /\ last.res = "ok"
RunReturned == pc = "idle" /\ last.op = "run" /\ last.res = "ok"

\* C1: with topBarSize < contextCapacity, after every append that returns the
\* token buffer holds at most contextCapacity tokens.
C1_TokensWithinContext ==
    (AppendReturned /\ params.top_bar < params.n_ctx) => Len(tokens) <= params.n_ctx

\* C2: after a scroll with scrollKeep > 0 the buffer holds topBarSize +
\* floor((preScrollLength - topBarSize) * scrollKeep) tokens, for the configured
\* scrollKeep.
C2_KeepCountFollowsScrollKeep ==
    (AppendReturned /\ scroll.done /\ params.scroll_keep > 0
        /\ params.top_bar < params.n_ctx)
    => Len(tokens) = params.top_bar
                     + ((Len(scroll.pre) - params.top_bar) * params.scroll_keep) \div 10

C4_EmptyAppendFails ==
    (pc = "idle" /\ last.op = "append" /\ last.arg = <<>>) => last.res # "ok"

\* C5: with a non-empty stop string, the text run returns never contains the
\* stop string.
C5_ResultExcludesStop ==
    (RunReturned /\ last.arg # <<>>) => ~Contains(last.ret, last.arg)

\* C6: the end-of-sequence sample that comes after eosIgnoreCount earlier ones
\* in the same run stops the run and appends no token; every earlier one
\* appends exactly one newline token and does not stop the run.
C6_Step ==
    (pc = "run" /\ rn'.iters = rn.iters + 1 /\ rn'.sampled = TokEos) =>
        IF rn.eos_seen = params.n_eos_ignores
        THEN /\ rn'.step = "eos"
             /\ rn'.abort
             /\ tokens' = tokens
        ELSE /\ rn.eos_seen < params.n_eos_ignores
             /\ rn'.step # "eos"
             /\ PushedBuffer' = tokens \o <<TokNl>>
C6_EosIgnoredThenHonoured == [][C6_Step]_vars
C6_Witness ==
    /\ RunReturned
    /\ rn.step = "eos"
    /\ params.n_eos_ignores = 1
    /\ rn.eos_seen = 2

\* C7: deserialize of the bytes serialize wrote succeeds and leaves tokens,
\* prompt and backend state as they were when serialize ran.
C7_RoundTrip ==
    (pc = "idle" /\ last.op = "deserialize" /\ last.arg = stream /\ snap.whole) =>
        /\ last.res = "ok"
        /\ tokens = snap.tokens
        /\ prompt = snap.prompt
        /\ kv = snap.kv
C7_Witness ==
    /\ last.op = "deserialize"
    /\ last.arg = stream
    /\ snap.whole
    /\ Len(tokens) >= 2
    /\ prompt # <<>>
    /\ kv # <<>>

\* C8: restore_savestate of a savestate whose ctx is not this session's fails
\* with the mismatch error and leaves tokens, prompt and backend state alone.
C8_Step ==
    (pc = "idle" /\ pc' = "idle" /\ last'.op = "restore_savestate" /\ last'.arg # <<Self>>) =>
        /\ last'.res = "error"
        /\ last'.err = "Savestate does not match context"
        /\ UNCHANGED <<tokens, prompt, kv>>
C8_ForeignSavestateRejected == [][C8_Step]_vars
C8_Witness ==
    /\ last.op = "restore_savestate"
    /\ last.arg = <<Other>>
    /\ last.res = "error"
    /\ tokens # <<>>
    /\ tokens # ForeignSavestate.tokens

\* C9: after a load_grammar that fails to parse, no grammar is attached.
C9_NoGrammarAfterParseFailure ==
    (pc = "idle" /\ last.op = "load_grammar"
        /\ last.err = "Failed to parse grammar (or no rules)")
    => gr.grammar = 0

\* C10: deserialize of a stream whose context size is not the session's fails
\* with the mismatch error and leaves tokens, prompt and backend state alone.
C10_Step ==
    (pc = "idle" /\ pc' = "idle" /\ last'.op = "deserialize"
        /\ Len(last'.arg) >= 4 /\ last'.arg[1] # params.n_ctx) =>
        /\ last'.res = "error"
        /\ last'.err = "Context length differs"
        /\ UNCHANGED <<tokens, prompt, kv>>
C10_ContextSizeMismatchRejected == [][C10_Step]_vars
C10_Witness ==
    /\ last.op = "deserialize"
    /\ last.err = "Context length differs"
    /\ Len(last.arg) >= 4
    /\ last.arg[2] # Len(tokens)
    /\ tokens # <<>>

\* C11: when a callback of run answers false, the token of that iteration is
\* applied as a whole or not at all: from a session whose backend has
\* evaluated exactly the token buffer, and with no scroll in the iteration, the
\* backend has again evaluated exactly the token buffer.
C11_Step ==
    (pc = "run" /\ kv = tokens /\ rn'.iters = rn.iters + 1 /\ rn'.abort
        /\ rn'.step \in {"vetoed", "evaluated"} /\ ~scroll'.done)
    => kv' = tokens'
C11_CancelLeavesNoPartialToken == [][C11_Step]_vars

\* C17: in every iteration of run that calls on_tick, pre_tick was called
\* first and the token was evaluated in between.
C17_OnTokenOnlyAfterEvaluation ==
    (pc \in {"run", "idle"} /\ \E n \in 1..Len(rn.events) : rn.events[n] = "on_tick")
    => rn.events = <<"pre_tick", "decode", "on_tick">>

\* C12: an append or a deserialize that fails leaves tokens, prompt and backend
\* state either as they were before the call or as the same call leaves them
\* when nothing fails.
C12_Step ==
    (pc = "idle" /\ pc' = "idle" /\ last'.res = "error"
        /\ last'.op \in {"append", "deserialize"})
    => \/ UNCHANGED <<tokens, prompt, kv>>
       \/ /\ last'.op = "append"
          /\ \E full \in {AppendCall(last'.arg, [F |-> {}, c |-> 0])} :
                <<tokens', prompt', kv'>> = <<full.tokens, full.prompt, full.kv>>
       \/ /\ last'.op = "deserialize"
          /\ \E full \in {DeserializeCall(stream)} :
                /\ full.res = "ok"
                /\ <<tokens', prompt', kv'>> = <<full.tokens, full.prompt, full.kv>>
C12_FailureIsAtomic == [][C12_Step]_vars

\* C13: no session with topBarSize >= contextCapacity is constructed, so no
\* scroll ever runs in one.
C13_NoScrollWithTopBarBeyondContext ==
    scroll.done => params.top_bar < params.n_ctx

\* C14: a savestate changes only when create_savestate fills it, whatever the
\* session appends, generates or scrolls meanwhile; and a successful
\* restore_savestate of it leaves tokens, prompt and backend state as they were
\* when it was taken.
C14_Step ==
    /\ (last'.op # "create_savestate") => (sv' = sv)
    /\ (last'.op = "restore_savestate" /\ last'.res = "ok") =>
            /\ tokens' = snap.tokens
            /\ prompt' = snap.prompt
            /\ kv' = snap.kv
C14_SavestateIsDeepCopy == [][C14_Step]_vars
C14_Witness ==
    /\ last.op = "restore_savestate"
    /\ last.res = "ok"
    /\ tokens # last.before
    /\ tokens # <<>>
    /\ kv # <<>>

\* C15: every step of append and run leaves the old prompt as a prefix of the
\* new one; an iteration of run extends prompt and the untrimmed result by the
\* same text, which is the text of its token whenever the iteration got as far
\* as its callbacks; and cutting the returned string does not touch prompt.
C15_Step ==
    /\ Len(prompt) <= Len(prompt')
    /\ SubSeq(prompt', 1, Len(prompt)) = prompt
    /\ (pc = "run" /\ rn'.iters = rn.iters + 1) =>
          \E d \in {SubSeq(prompt', Len(prompt) + 1, Len(prompt'))} :
              /\ rn'.fres = rn.fres \o d
              /\ IF rn'.events # <<>>
                 THEN /\ Len(d) = 1
                      /\ TokenOf(d[1]) = PushedBuffer'[Len(PushedBuffer')]
                 ELSE d = <<>>
    /\ (pc = "run" /\ pc' = "idle" /\ last'.res = "ok") =>
          /\ prompt' = prompt
          /\ Len(prompt) >= Len(rn.fres)
          /\ SubSeq(prompt, Len(prompt) - Len(rn.fres) + 1, Len(prompt)) = rn.fres
C15_PromptIsAppendOnly == [][C15_Step]_vars
C15_Witness ==
    /\ RunReturned
    /\ last.arg # <<>>
    /\ Contains(rn.fres, last.arg)
    /\ last.ret # rn.fres
    /\ Len(tokens) < Len(prompt)

\* C16: a sampling step under a prefer_mirostat other than 0, 1 and 2 raises
\* the configuration error and yields no token.
C16_InvalidStrategyIsFatal ==
    (last.op = "llama_sample_top_p_top_k" /\ last.arg[1] \notin {0, 1, 2})
    => (last.res = "throw" /\ last.ret = <<>>)
\* C18: an append that returns success without a scroll and without a
\* cancelling callback has handed the backend the positions from the old
\* token count up to the end of the buffer, each once and in increasing
\* order, and no other position.
C18_Case ==
    /\ last.op = "append" /\ last.res = "ok"
    /\ ~scroll.done /\ ~last.cancelled
C18_EvaluatesExactlyNewTokens ==
    C18_Case =>
        Decoded(last.log) = [j \in 1..(Len(tokens) - last.old) |-> last.old + j - 1]
C18_Witness ==
    /\ C18_Case
    /\ last.old > 0
    /\ params.n_batch = MaxBatch
    /\ Len(tokens) - last.old = MaxBatch + 1
    /\ \E i \in 1..Len(last.log) : last.log[i][1] = "decode" /\ last.log[i][3] = MaxBatch
\* C19: whenever a scroll has cut the token buffer, the backend has evaluated
\* the whole retained buffer before run goes on to sample the next token and
\* before append returns success.
C19_ScrollIsFollowedByFullEvaluation ==
    (/\ scroll.done
     /\ \/ pc = "run" /\ rn.step \in {"evaluated", "vetoed"}
        \/ pc = "idle" /\ last.op = "append" /\ last.res = "ok")
    => (Len(kv) >= Len(tokens) /\ SubSeq(kv, 1, Len(tokens)) = tokens)
\* The calls of append's progress callback in the log of the last call, and
\* what holds of them whether or not the call scrolled or failed: a callback
\* call follows each evaluated batch of n_batch tokens, the values lie in
\* 0..100 and never decrease, and a call that answered false is the last
\* thing the handler did, with success returned and every evaluated batch
\* still in the backend.
C20_Ticks == {i \in 1..Len(last.log) : last.log[i][1] = "on_tick"}
C20_Calls ==
    \E L \in {last.log} :
        /\ \A i \in 1..Len(L) :
              (L[i][1] = "decode" /\ L[i][3] = params.n_batch)
              => (i < Len(L) /\ L[i + 1][1] = "on_tick")
        /\ \A i \in C20_Ticks : L[i][2] \in 0..100
        /\ \A i, j \in C20_Ticks : i < j => L[i][2] <= L[j][2]
        /\ \A i \in C20_Ticks :
              L[i][3] = 0 =>
                  /\ i = Len(L)
                  /\ last.res = "ok"
                  /\ \A j \in 1..Len(L) :
                        L[j][1] = "decode" =>
                            /\ Len(kv) >= L[j][2] + L[j][3]
                            /\ SubSeq(kv, L[j][2] + 1, L[j][2] + L[j][3])
                                 = SubSeq(tokens, L[j][2] + 1, L[j][2] + L[j][3])

C21_Step ==
    (/\ last.op = "llama_sample_top_p_top_k" /\ last.mu_out # <<>>
     /\ last'.op = "llama_sample_top_p_top_k" /\ last'.mu_in # <<>>
     /\ last'.arg = last.arg)
    => last'.mu_in = last.mu_out
C21_MuIsRunningValue == [][C21_Step]_vars
\* C22: when an iteration of run has come to the evaluation of its token, the
\* token buffer is not empty and ends with the token the iteration pushed
\* (the sampled one, or the newline put in for an ignored end of sequence),
\* whether or not the iteration scrolled.
C22_ScrollKeepsPushedToken ==
    (pc \in {"run", "dead"} /\ rn.step \in {"evaluated", "crashed"})
    => /\ tokens # <<>>
       /\ tokens[Len(tokens)] = PushedBuffer[Len(PushedBuffer)]
\* C23: in a session whose calls of append, run, restore_savestate and
\* deserialize have all returned success, with no callback answering false,
\* whenever a call has returned the backend has evaluated, at the positions
\* of the token buffer, exactly the tokens of the buffer.
C23_BackendCoversBuffer ==
    (pc = "idle") => (Len(kv) >= Len(tokens) /\ SubSeq(kv, 1, Len(tokens)) = tokens)
====
